---- MODULE Spec2Model ----
(***************************************************************************)
(* Set-associative cache simulator with LRU/FIFO replacement and miss      *)
(* classification (compulsory / capacity / conflict), cache_sim.cpp.       *)
(*                                                                         *)
(* One run of the program: a Cache is constructed from a geometry, then    *)
(* Cache::access is called once per trace address.                         *)
(***************************************************************************)
EXTENDS Integers, Sequences, FiniteSets, TLC

\* Longest trace replayed through one simulator.
MaxAccesses == 6

\* Command-line geometries tried (bytes, bytes, ways) and trace addresses.
CacheSizes == {0, 64, 128, 192, 256}
BlockSizes == {0, 64}
Assocs     == {0, 1, 2, 3}
Policies   == {"LRU", "FIFO"}
Addrs      == {0, 64, 128, 192}

----------------------------------------------------------------------------
(* Arithmetic used by the constructor and by decompose *)

RECURSIVE Pow2(_)
Pow2(n) == IF n <= 0 THEN 1 ELSE 2 * Pow2(n - 1)

\* (int)round(log2(n)) for n >= 1: the k with 2^(k-1/2) <= n < 2^(k+1/2),
\* i.e. 4^k <= 2*n*n < 4^(k+1).
RoundLog2(n) == CHOOSE k \in 0..16 : Pow2(2 * k) <= 2 * n * n /\ 2 * n * n < Pow2(2 * k + 2)

\* x >> n and x & ((1 << n) - 1) on unsigned integers
ShiftRight(x, n) == x \div Pow2(n)
LowBits(x, n)    == x % Pow2(n)

\* list::erase of the node holding v (v occurs at most once)
RemoveFrom(s, v) == SelectSeq(s, LAMBDA x : x # v)

----------------------------------------------------------------------------
(* struct FullyAssocLRU: order (front = oldest), pos (key set of the map). *)
(* log is the sequence of block addresses access() has been called with.   *)

NewFullyAssocLRU(cap) == [capacity |-> cap, order |-> << >>, pos |-> {}, log |-> << >>]

\* The bool FullyAssocLRU::access returns
FaHit(fa, block_addr) == block_addr \in fa.pos

\* FaAccess with a fault: the capacity test is lost
FaAccessNeverEvicts(fa, block_addr) ==
  IF block_addr \in fa.pos
  THEN [fa EXCEPT !.order = Append(RemoveFrom(fa.order, block_addr), block_addr),
                  !.log = Append(fa.log, block_addr)]
  ELSE [fa EXCEPT !.order = Append(fa.order, block_addr),
                  !.pos = fa.pos \cup {block_addr},
                  !.log = Append(fa.log, block_addr)]

\* FaAccess with a fault: a hit does not move the block to the newest position
FaAccessNoMoveOnHit(fa, block_addr) ==
  IF block_addr \in fa.pos
  THEN [fa EXCEPT !.log = Append(fa.log, block_addr)]
  ELSE LET evict == Len(fa.order) >= fa.capacity /\ fa.capacity > 0
           kept  == IF evict THEN Tail(fa.order) ELSE fa.order
           keys  == IF evict THEN fa.pos \ {Head(fa.order)} ELSE fa.pos
       IN [fa EXCEPT !.order = Append(kept, block_addr),
                     !.pos = keys \cup {block_addr},
                     !.log = Append(fa.log, block_addr)]

\* The state FullyAssocLRU::access leaves
FaAccess(fa, block_addr) ==
  IF block_addr \in fa.pos
  THEN [fa EXCEPT !.order = Append(RemoveFrom(fa.order, block_addr), block_addr),
                  !.log = Append(fa.log, block_addr)]
  ELSE LET evict == Len(fa.order) >= fa.capacity /\ fa.capacity > 0
           kept  == IF evict THEN Tail(fa.order) ELSE fa.order
           keys  == IF evict THEN fa.pos \ {Head(fa.order)} ELSE fa.pos
       IN [fa EXCEPT !.order = Append(kept, block_addr),
                     !.pos = keys \cup {block_addr},
                     !.log = Append(fa.log, block_addr)]

----------------------------------------------------------------------------
(* struct Set: order (front = oldest), members = keys of pos under LRU and *)
(* the set present under FIFO. evicted is the sequence of tags insert has  *)
(* evicted (its local ev).                                                 *)

NewSet(a, lru) == [assoc |-> a, isLRU |-> lru, order |-> << >>, members |-> {}, evicted |-> << >>]

SetContains(s, tag) == tag \in s.members

\* SetTouch with a fault: nothing is reordered
SetTouchFifoLike(s, tag) == s

\* SetTouch with a fault: the old list node is not erased
SetTouchKeepsOldNode(s, tag) ==
  IF ~s.isLRU THEN s
  ELSE IF tag \notin s.members THEN s
  ELSE [s EXCEPT !.order = Append(s.order, tag)]

\* SetTouch with a fault: the tag is pushed to the front
SetTouchToFront(s, tag) ==
  IF ~s.isLRU THEN s
  ELSE IF tag \notin s.members THEN s
  ELSE [s EXCEPT !.order = <<tag>> \o RemoveFrom(s.order, tag)]

\* SetTouch
SetTouch(s, tag) ==
  IF ~s.isLRU THEN s
  ELSE IF tag \notin s.members THEN s
  ELSE [s EXCEPT !.order = Append(RemoveFrom(s.order, tag), tag)]

\* SetInsert with a fault: the occupancy test is <= assoc
SetInsertOffByOne(s, tag) ==
  IF SetContains(s, tag) THEN (IF s.isLRU THEN SetTouch(s, tag) ELSE s)
  ELSE IF Len(s.order) <= s.assoc
  THEN [s EXCEPT !.order = Append(s.order, tag), !.members = s.members \cup {tag}]
  ELSE LET ev == Head(s.order)
       IN [s EXCEPT !.order = Append(Tail(s.order), tag),
                    !.members = (s.members \ {ev}) \cup {tag},
                    !.evicted = Append(s.evicted, ev)]

\* SetInsert with a fault: after an eviction the new tag is not entered in pos / present
SetInsertForgetsKey(s, tag) ==
  IF SetContains(s, tag) THEN (IF s.isLRU THEN SetTouch(s, tag) ELSE s)
  ELSE IF Len(s.order) < s.assoc
  THEN [s EXCEPT !.order = Append(s.order, tag), !.members = s.members \cup {tag}]
  ELSE LET ev == Head(s.order)
       IN [s EXCEPT !.order = Append(Tail(s.order), tag),
                    !.members = s.members \ {ev},
                    !.evicted = Append(s.evicted, ev)]

\* SetInsert
SetInsert(s, tag) ==
  IF SetContains(s, tag) THEN (IF s.isLRU THEN SetTouch(s, tag) ELSE s)
  ELSE IF Len(s.order) < s.assoc
  THEN [s EXCEPT !.order = Append(s.order, tag), !.members = s.members \cup {tag}]
  ELSE LET ev == Head(s.order)
       IN [s EXCEPT !.order = Append(Tail(s.order), tag),
                    !.members = (s.members \ {ev}) \cup {tag},
                    !.evicted = Append(s.evicted, ev)]

----------------------------------------------------------------------------
(* struct Cache *)

VARIABLES
  cfg,      \* the arguments main passes to the constructor
  status,   \* where the run is: "start", "ready", or how it ended
  sim,      \* the Cache object
  trace,    \* addresses access() has been called with, in order
  results   \* the classification string each call returned, in order

vars == <<cfg, status, sim, trace, results>>

\* Quotient and remainder as delivered by a divide that does not trap on a
\* zero divisor (quotient 0, remainder = dividend).
UDiv(x, y) == IF y = 0 THEN 0 ELSE x \div y
UMod(x, y) == IF y = 0 THEN x ELSE x % y

IsLRUPolicy(pol) == pol = "LRU" \/ pol = "lru"

\* The object before the constructor has run
Unconstructed ==
  [cache_size |-> 0, block_size |-> 0, assoc |-> 0, policy |-> "",
   num_sets |-> 0, offset_bits |-> 0, index_bits |-> 0, tag_bits |-> 0,
   sets |-> << >>, fa_sim |-> NewFullyAssocLRU(0),
   accesses |-> 0, hits |-> 0, misses |-> 0,
   miss_compulsory |-> 0, miss_capacity |-> 0, miss_conflict |-> 0,
   seen_blocks |-> {}]

\* The two throw statements of the constructor body
ThrowsConfigError(cs, bs, a) ==
  \/ bs = 0
  \/ UMod(cs, bs * a) # 0

\* The object the constructor leaves when it does not throw
ConstructCache(cs, bs, a, pol, addr_bits) ==
  LET ns == UDiv(cs, bs * a)
      ob == RoundLog2(bs)
      ib == IF ns > 1 THEN RoundLog2(ns) ELSE 0
  IN [cache_size |-> cs, block_size |-> bs, assoc |-> a, policy |-> pol,
      num_sets |-> ns, offset_bits |-> ob, index_bits |-> ib,
      tag_bits |-> addr_bits - ib - ob,
      sets |-> [i \in 0..(ns - 1) |-> NewSet(a, IsLRUPolicy(pol))],
      fa_sim |-> NewFullyAssocLRU(UDiv(cs, bs)),
      accesses |-> 0, hits |-> 0, misses |-> 0,
      miss_compulsory |-> 0, miss_capacity |-> 0, miss_conflict |-> 0,
      seen_blocks |-> {}]

\* addr >> offset_bits
BlockAddr(c, addr) == ShiftRight(addr, c.offset_bits)

\* Decompose with a fault: the tag is shifted one bit too far
DecomposeDropsIndexBit(c, addr) ==
  LET block_addr == ShiftRight(addr, c.offset_bits)
  IN [tag   |-> ShiftRight(block_addr, c.index_bits + 1),
      index |-> IF c.num_sets > 1 THEN LowBits(block_addr, c.index_bits) ELSE 0]

\* Decompose
Decompose(c, addr) ==
  LET block_addr == ShiftRight(addr, c.offset_bits)
  IN [tag   |-> ShiftRight(block_addr, c.index_bits),
      index |-> IF c.num_sets > 1 THEN LowBits(block_addr, c.index_bits) ELSE 0]

\* The string returned on the miss path
Classify(first_time, fa_hit) ==
  IF first_time THEN "MISS-Compulsory"
  ELSE IF fa_hit THEN "MISS-Conflict"
  ELSE "MISS-Capacity"

\* HitPath with a fault: hits is not incremented
HitPathNoCount(c, block_addr, tag, idx) ==
  [cache |-> [c EXCEPT !.sets[idx] = IF IsLRUPolicy(c.policy) THEN SetTouch(@, tag) ELSE @,
                       !.fa_sim = FaAccess(@, block_addr)],
   ret |-> "HIT"]

\* HitPath with a fault: fa_sim.access is not called
HitPathNoOracle(c, block_addr, tag, idx) ==
  [cache |-> [c EXCEPT !.hits = @ + 1,
                       !.sets[idx] = IF IsLRUPolicy(c.policy) THEN SetTouch(@, tag) ELSE @],
   ret |-> "HIT"]

\* HitPath with a fault: the tag is moved to the newest position whatever the policy
HitPathReorders(c, block_addr, tag, idx) ==
  [cache |-> [c EXCEPT !.hits = @ + 1,
                       !.sets[idx].order = Append(RemoveFrom(@, tag), tag),
                       !.fa_sim = FaAccess(@, block_addr)],
   ret |-> "HIT"]

\* access, the branch taken when sets[idx].contains(tag)
HitPath(c, block_addr, tag, idx) ==
  [cache |-> [c EXCEPT !.hits = @ + 1,
                       !.sets[idx] = IF IsLRUPolicy(c.policy) THEN SetTouch(@, tag) ELSE @,
                       !.fa_sim = FaAccess(@, block_addr)],
   ret |-> "HIT"]

\* MissPath with a fault: miss_conflict is not incremented
MissPathConflictUncounted(c, block_addr, tag, idx, first_time) ==
  LET fa_hit == FaHit(c.fa_sim, block_addr)
      kind   == Classify(first_time, fa_hit)
  IN [cache |-> [c EXCEPT !.misses = @ + 1,
                          !.fa_sim = FaAccess(@, block_addr),
                          !.miss_compulsory = IF kind = "MISS-Compulsory" THEN @ + 1 ELSE @,
                          !.miss_capacity = IF kind = "MISS-Capacity" THEN @ + 1 ELSE @,
                          !.sets[idx] = SetInsert(@, tag)],
      ret |-> kind]

\* access, the branch taken otherwise
MissPath(c, block_addr, tag, idx, first_time) ==
  LET fa_hit == FaHit(c.fa_sim, block_addr)
      kind   == Classify(first_time, fa_hit)
  IN [cache |-> [c EXCEPT !.misses = @ + 1,
                          !.fa_sim = FaAccess(@, block_addr),
                          !.miss_compulsory = IF kind = "MISS-Compulsory" THEN @ + 1 ELSE @,
                          !.miss_conflict = IF kind = "MISS-Conflict" THEN @ + 1 ELSE @,
                          !.miss_capacity = IF kind = "MISS-Capacity" THEN @ + 1 ELSE @,
                          !.sets[idx] = SetInsert(@, tag)],
      ret |-> kind]

\* BeforeLookup with a fault: seen_blocks is keyed by the address
BeforeLookupKeysByAddr(c, addr) ==
  [c EXCEPT !.accesses = @ + 1,
            !.seen_blocks = @ \cup {addr}]

\* access up to the subscript sets[idx]: accesses++ and seen_blocks.insert
BeforeLookup(c, addr) ==
  [c EXCEPT !.accesses = @ + 1,
            !.seen_blocks = @ \cup {BlockAddr(c, addr)}]

\* sets[idx] names an element of the vector
IndexInRange(c, addr) == Decompose(c, addr).index \in DOMAIN c.sets

\* Cache::access(addr) when sets[idx] exists: the object and the string it returns
CacheAccess(c, addr) ==
  LET block_addr == BlockAddr(c, addr)
      d          == Decompose(c, addr)
      first_time == block_addr \notin c.seen_blocks
      c1         == BeforeLookup(c, addr)
  IN IF SetContains(c1.sets[d.index], d.tag)
     THEN HitPath(c1, block_addr, d.tag, d.index)
     ELSE MissPath(c1, block_addr, d.tag, d.index, first_time)

----------------------------------------------------------------------------
(* main: one run *)

AddrBits == {32}

Init ==
  /\ cfg \in [cache_size : CacheSizes, block_size : BlockSizes, assoc : Assocs,
              policy : Policies, addr_bits : AddrBits]
  /\ status = "start"
  /\ sim = Unconstructed
  /\ trace = << >>
  /\ results = << >>

\* Cache sim(cache_size, block_size, assoc, policy, addr_bits, verbose) in main.
\* fa_sim's initializer divides by block_size before the body tests it, and the
\* body takes cache_size % (block_size * assoc) without testing assoc: with a
\* zero divisor the division is undefined, and either traps or delivers a
\* value and goes on.
Construct ==
  /\ status = "start"
  /\ LET cs == cfg.cache_size
         bs == cfg.block_size
         a  == cfg.assoc
         zeroDivide == bs = 0 \/ a = 0
     IN \/ /\ zeroDivide
           /\ status' = "sigfpe"
           /\ sim' = sim
        \/ /\ ThrowsConfigError(cs, bs, a)
           /\ status' = "config_error"
           /\ sim' = sim
        \/ /\ ~ThrowsConfigError(cs, bs, a)
           /\ status' = "ready"
           /\ sim' = ConstructCache(cs, bs, a, cfg.policy, cfg.addr_bits)
  /\ UNCHANGED <<cfg, trace, results>>

\* sim.access(addr) in main's loop. When idx is not below sets.size() the
\* subscript is undefined: the call faults, or goes on over memory that is no
\* Set, after which nothing is known of the object.
Access(addr) ==
  /\ status = "ready"
  /\ Len(trace) < MaxAccesses
  /\ trace' = Append(trace, addr)
  /\ IF IndexInRange(sim, addr)
     THEN LET r == CacheAccess(sim, addr)
          IN /\ sim' = r.cache
             /\ results' = Append(results, r.ret)
             /\ status' = "ready"
     ELSE /\ sim' = BeforeLookup(sim, addr)
          /\ results' = results
          /\ status' \in {"segfault", "undefined"}
  /\ UNCHANGED cfg

Next ==
  \/ Construct
  \/ \E addr \in Addrs : Access(addr)

Spec == Init /\ [][Next]_vars

----------------------------------------------------------------------------
(* Properties *)

Ready == status = "ready"

IsPow2(n) == \E k \in 0..16 : n = Pow2(k)

Geometry(cs, bs, a) ==
  cfg.cache_size = cs /\ cfg.block_size = bs /\ cfg.assoc = a

\* Block address of the i-th access of the trace
BlockOf(i) == BlockAddr(sim, trace[i])

\* The i-th access is the first one to its block
FirstReference(i) == \A j \in 1..(i - 1) : BlockOf(j) # BlockOf(i)

\* C1: with num_sets = 1, under LRU and under FIFO, miss_conflict stays 0
\* after every access.
C1_NoConflictInOneSet ==
  (Ready /\ sim.num_sets = 1) => sim.miss_conflict = 0

\* C2: the first access to a block never returns HIT and is always classified
\* MISS-Compulsory, never MISS-Conflict or MISS-Capacity.
C2_FirstReferenceCompulsory ==
  Ready => \A i \in 1..Len(trace) : FirstReference(i) => results[i] = "MISS-Compulsory"

\* A block is referenced for the first time right after a hit and after a
\* non-compulsory miss, in a cache of more than one set.
C2_Witness ==
  /\ Ready
  /\ sim.num_sets > 1
  /\ \E i \in 3..Len(trace) :
       /\ FirstReference(i)
       /\ results[i - 1] = "HIT"
       /\ \E j \in 1..(i - 1) : results[j] \in {"MISS-Conflict", "MISS-Capacity"}

\* C3: after any sequence of access() calls, hits + misses = accesses (and
\* accesses counts the calls).
C3_HitsPlusMisses ==
  Ready => /\ sim.hits + sim.misses = sim.accesses
           /\ sim.accesses = Len(trace)

C3_Witness ==
  Ready /\ sim.hits >= 2 /\ sim.misses >= 2

\* C4: after any sequence of access() calls, miss_compulsory + miss_conflict +
\* miss_capacity = misses.
C4_MissBreakdown ==
  Ready => sim.miss_compulsory + sim.miss_conflict + sim.miss_capacity = sim.misses

C4_Witness ==
  Ready /\ sim.miss_compulsory > 0 /\ sim.miss_conflict > 0 /\ sim.miss_capacity > 0

\* C5: every call of access calls the oracle exactly once with the accessed
\* block, on the hit path and on each miss path: the oracle has processed the
\* block sequence of the trace, in order.
C5_OracleSeesEveryAccess ==
  Ready => sim.fa_sim.log = [i \in 1..Len(trace) |-> BlockOf(i)]

\* All four outcomes have occurred in one run.
C5_Witness ==
  /\ Ready
  /\ \A kind \in {"HIT", "MISS-Compulsory", "MISS-Conflict", "MISS-Capacity"} :
       \E i \in 1..Len(results) : results[i] = kind

\* The geometry is malformed: block_size is 0, or cache_size is no exact
\* multiple of block_size * assoc.
Malformed ==
  \/ cfg.block_size = 0
  \/ ~\E k \in 0..cfg.cache_size : cfg.cache_size = k * cfg.block_size * cfg.assoc

\* C6: constructing a simulator with malformed geometry ends in the
\* configuration error (exit code 3), never in another failure and never in
\* a usable simulator.
C6_MalformedIsConfigError ==
  (Malformed /\ status # "start") => status = "config_error"

\* C7: a num_sets greater than 1 that is no power of two is rejected at
\* construction; index_bits is only ever an exact log2.
C7_NonPowerOfTwoRejected ==
  (Ready /\ sim.num_sets > 1) =>
     /\ IsPow2(sim.num_sets)
     /\ Pow2(sim.index_bits) = sim.num_sets

\* The run of the end-to-end scenario: 2 sets of 1 way, blocks of 64 bytes
ScenarioRun ==
  /\ Ready
  /\ Geometry(128, 64, 1)
  /\ trace = <<0, 64, 128, 0, 64, 128>>

\* C8 as stated: 128 evicts the line of its set, the second-pass access to the
\* evicted address is MISS-Conflict and the other repeat accesses are hits.
C8_AsStated ==
  ScenarioRun =>
     /\ results[4] = "MISS-Conflict"
     /\ results[5] = "HIT"
     /\ results[6] = "HIT"

\* C8 amended: 0 and 64 map to distinct sets, 128 maps to the set of 0 and
\* evicts it; on the second pass 0 is MISS-Capacity (the oracle of 2 blocks has
\* dropped it too), 64 is a HIT, and 128, evicted by 0, is MISS-Capacity.
C8_Scenario ==
  ScenarioRun =>
     /\ Decompose(sim, 0).index = 0
     /\ Decompose(sim, 64).index = 1
     /\ Decompose(sim, 128).index = 0
     /\ results = <<"MISS-Compulsory", "MISS-Compulsory", "MISS-Compulsory",
                    "MISS-Capacity", "HIT", "MISS-Capacity">>
     /\ sim.sets[0].evicted = <<0, 1, 0>>
     /\ sim.sets[1].evicted = << >>

C8_Witness == ScenarioRun /\ sim.accesses = 6 /\ sim.hits = 1

\* The trace is A, B, C, A, D, five accesses to four different blocks, all in
\* the one set of a cache of `ways` ways
TouchOrderRun(ways) ==
  /\ Ready
  /\ sim.num_sets = 1
  /\ sim.assoc = ways
  /\ Len(trace) = 5
  /\ trace[4] = trace[1]
  /\ Cardinality({BlockOf(i) : i \in {1, 2, 3, 5}}) = 4

\* Tag of the i-th access of the trace
TagOf(i) == Decompose(sim, trace[i]).tag

LastEvicted == sim.sets[0].evicted[Len(sim.sets[0].evicted)]

\* C9 as stated: after A, B, C, A in a 2-way set the next miss evicts B under
\* LRU and A under FIFO.
C9_AsStated ==
  TouchOrderRun(2) =>
     LastEvicted = (IF IsLRUPolicy(cfg.policy) THEN TagOf(2) ELSE TagOf(1))

\* C9 amended: after A, B, C, A in a 3-way set (the second access to A is a
\* hit) the next miss evicts B under LRU and A under FIFO. In a 2-way set C
\* has evicted A, the second access to A is a miss that evicts B, and the next
\* miss evicts C under both policies.
C9_TouchOrdering ==
  /\ TouchOrderRun(3) =>
       /\ results[4] = "HIT"
       /\ sim.sets[0].evicted =
            (IF IsLRUPolicy(cfg.policy) THEN <<TagOf(2)>> ELSE <<TagOf(1)>>)
  /\ TouchOrderRun(2) =>
       /\ results[4] # "HIT"
       /\ sim.sets[0].evicted = <<TagOf(1), TagOf(2), TagOf(3)>>

C9_Witness ==
  /\ IsLRUPolicy(cfg.policy)
  /\ TouchOrderRun(3)
  /\ trace = <<0, 64, 128, 0, 192>>
  /\ sim.sets[0].order = <<2, 0, 3>>

\* Positions of the trace, in order
Positions == [i \in 1..Len(trace) |-> i]

\* Set index of the i-th access of the trace
IndexOf(i) == Decompose(sim, trace[i]).index

\* Tags of the accesses that went to set idx and missed, in trace order
MissTags(idx) ==
  LET sel == SelectSeq(Positions, LAMBDA i : IndexOf(i) = idx /\ results[i] # "HIT")
  IN [k \in 1..Len(sel) |-> TagOf(sel[k])]

\* The object and the results after the first n accesses of the trace when
\* the simulator is constructed with policy pol
RECURSIVE Replay(_, _)
Replay(pol, n) ==
  IF n = 0
  THEN [cache |-> ConstructCache(cfg.cache_size, cfg.block_size, cfg.assoc, pol, cfg.addr_bits),
        rets |-> << >>]
  ELSE LET p == Replay(pol, n - 1)
           r == CacheAccess(p.cache, trace[n])
       IN [cache |-> r.cache, rets |-> Append(p.rets, r.ret)]

OtherPolicy == IF IsLRUPolicy(cfg.policy) THEN "FIFO" ELSE "LRU"

Counters(c) ==
  <<c.accesses, c.hits, c.misses, c.miss_compulsory, c.miss_conflict, c.miss_capacity>>

\* C11: with associativity 1 every set holds at most one tag, every miss in
\* an occupied set replaces that tag (the tags that missed in a set are the
\* evicted ones followed by the resident one), and the per-access results and
\* the counters are those of the same trace under the other policy.
C11_DirectMapped ==
  []((Ready /\ sim.assoc = 1) =>
        /\ \A idx \in DOMAIN sim.sets :
             /\ Len(sim.sets[idx].order) <= 1
             /\ Cardinality(sim.sets[idx].members) <= 1
             /\ sim.sets[idx].evicted \o sim.sets[idx].order = MissTags(idx)
        /\ LET other == Replay(OtherPolicy, Len(trace))
           IN /\ other.rets = results
              /\ Counters(other.cache) = Counters(sim))

\* A direct-mapped LRU run with hits and with a set whose tag was replaced twice
C11_Witness ==
  /\ Ready
  /\ sim.assoc = 1
  /\ IsLRUPolicy(cfg.policy)
  /\ sim.hits >= 2
  /\ \E idx \in DOMAIN sim.sets : Len(sim.sets[idx].evicted) >= 2

Range(s) == {s[i] : i \in 1..Len(s)}

\* The cap most recently occurring distinct values of s, least recent first
RecentDistinct(s, cap) ==
  LET last == {i \in 1..Len(s) : \A j \in (i + 1)..Len(s) : s[j] # s[i]}
      kept == {i \in last : Cardinality({j \in last : j > i}) < cap}
      sel  == SelectSeq([i \in 1..Len(s) |-> i], LAMBDA i : i \in kept)
  IN [k \in 1..Len(sel) |-> s[sel[k]]]

\* C12: the oracle's access(block_id) returns true exactly when block_id is
\* among the capacity most recently accessed distinct blocks of the sequence
\* it has seen (capacity >= 1); after the call block_id is newest, the oracle
\* holds no duplicates and its size does not exceed capacity.
C12_OracleIsLru ==
  (Ready /\ sim.fa_sim.capacity >= 1) =>
     LET fa     == sim.fa_sim
         recent == RecentDistinct(fa.log, fa.capacity)
     IN /\ fa.order = recent
        /\ fa.pos = Range(fa.order)
        /\ Cardinality(fa.pos) = Len(fa.order)
        /\ Len(fa.order) <= fa.capacity
        /\ Len(fa.log) > 0 => fa.order[Len(fa.order)] = fa.log[Len(fa.log)]
        /\ \A a \in Addrs :
             FaHit(fa, BlockAddr(sim, a)) <=> BlockAddr(sim, a) \in Range(recent)
        /\ \A i \in 1..Len(trace) :
             (results[i] # "HIT" /\ ~FirstReference(i)) =>
                (results[i] = "MISS-Conflict" <=>
                   BlockOf(i) \in Range(RecentDistinct(SubSeq(fa.log, 1, i - 1), fa.capacity)))

\* The oracle is full, has evicted a block, and its resident blocks are not in
\* the order of their first access
C12_Witness ==
  /\ Ready
  /\ sim.fa_sim.capacity >= 2
  /\ Len(sim.fa_sim.order) = sim.fa_sim.capacity
  /\ Cardinality(Range(sim.fa_sim.log)) > sim.fa_sim.capacity
  /\ sim.fa_sim.order[1] > sim.fa_sim.order[2]
  /\ sim.miss_conflict > 0

\* Positions of the accesses that went to set idx and missed, in order
MissPositions(idx) ==
  SelectSeq(Positions, LAMBDA i : IndexOf(i) = idx /\ results[i] # "HIT")

\* Tags of the accesses (hits and misses) that went to set idx before the
\* p-th access of the trace, in order
TagsBefore(idx, p) ==
  LET sel == SelectSeq(Positions, LAMBDA i : i < p /\ IndexOf(i) = idx)
  IN [k \in 1..Len(sel) |-> TagOf(sel[k])]

\* C13: under LRU a miss in a full set evicts the resident tag whose most
\* recent access (hit or insertion) is the earliest, and a hit moves the tag
\* to the newest position: each set's order is its assoc most recently
\* accessed distinct tags, least recent first, and each evicted tag was the
\* least recent of them when the miss came.
C13_LruEviction ==
  (Ready /\ IsLRUPolicy(cfg.policy)) =>
     \A idx \in DOMAIN sim.sets :
        LET s    == sim.sets[idx]
            miss == MissPositions(idx)
        IN /\ s.order = RecentDistinct(TagsBefore(idx, Len(trace) + 1), s.assoc)
           /\ s.members = Range(s.order)
           /\ Len(s.evicted) = (IF Len(miss) > s.assoc THEN Len(miss) - s.assoc ELSE 0)
           /\ \A k \in 1..Len(s.evicted) :
                s.evicted[k] =
                   Head(RecentDistinct(TagsBefore(idx, miss[s.assoc + k]), s.assoc))

\* An LRU set of several ways has evicted a tag that was not the first one
\* inserted: a hit had refreshed the first one
C13_Witness ==
  /\ Ready
  /\ IsLRUPolicy(cfg.policy)
  /\ \E idx \in DOMAIN sim.sets :
       /\ sim.sets[idx].assoc >= 2
       /\ Len(sim.sets[idx].evicted) >= 1
       /\ sim.sets[idx].evicted[1] # MissTags(idx)[1]

\* Every set's order is the last assoc tags that missed in it, in the order
\* they were inserted, and its evicted tags are the ones that missed before
FifoOrder ==
  \A idx \in DOMAIN sim.sets :
     LET s == sim.sets[idx]
         m == MissTags(idx)
     IN /\ s.evicted \o s.order = m
        /\ Len(s.order) = (IF Len(m) < s.assoc THEN Len(m) ELSE s.assoc)
        /\ s.members = Range(s.order)

\* The step is an access that returned HIT
HitStep ==
  /\ status = "ready" /\ status' = "ready"
  /\ Len(results') = Len(results) + 1
  /\ results'[Len(results')] = "HIT"

\* C14: under FIFO an access that hits leaves the contents and the order of
\* every set unchanged, so a miss in a full set always evicts the resident
\* tag that was inserted earliest, however many hits it received.
C14_FifoHitsDoNotReorder ==
  /\ []((Ready /\ ~IsLRUPolicy(cfg.policy)) => FifoOrder)
  /\ [][(HitStep /\ ~IsLRUPolicy(cfg.policy)) => sim'.sets = sim.sets]_vars

\* A FIFO set of several ways has evicted its first tag although that tag was
\* hit after the other resident tags were inserted
C14_Witness ==
  /\ Ready
  /\ ~IsLRUPolicy(cfg.policy)
  /\ \E idx \in DOMAIN sim.sets :
       LET s == sim.sets[idx]
       IN /\ s.assoc >= 2
          /\ Len(s.evicted) >= 1
          /\ \E i \in 1..Len(trace) :
               /\ results[i] = "HIT"
               /\ IndexOf(i) = idx
               /\ TagOf(i) = s.evicted[1]
               /\ i > MissPositions(idx)[s.assoc]
               /\ i < MissPositions(idx)[s.assoc + 1]

\* Every set holds at most assoc tags and no tag twice
SetsBounded ==
  \A idx \in DOMAIN sim.sets :
     LET s == sim.sets[idx]
     IN /\ Len(s.order) <= s.assoc
        /\ Cardinality(Range(s.order)) = Len(s.order)
        /\ s.members = Range(s.order)

\* C15: in every reachable state every set holds at most associativity tags,
\* none of them twice; a tag is evicted only when the set is full, so the
\* occupancy of a set never decreases.
C15_SetOccupancy ==
  /\ [](Ready => SetsBounded)
  /\ [][(status = "ready" /\ status' = "ready") =>
          \A idx \in DOMAIN sim.sets :
             /\ Len(sim'.sets[idx].order) >= Len(sim.sets[idx].order)
             /\ sim'.sets[idx].evicted # sim.sets[idx].evicted =>
                  /\ Len(sim.sets[idx].order) = sim.sets[idx].assoc
                  /\ Len(sim'.sets[idx].order) = sim.sets[idx].assoc]_vars

\* A set of several ways is full and has evicted twice
C15_Witness ==
  /\ Ready
  /\ \E i \in DOMAIN sim.sets :
       /\ sim.sets[i].assoc >= 2
       /\ Len(sim.sets[i].order) = sim.sets[i].assoc
       /\ Len(sim.sets[i].evicted) >= 2

\* The constructor has returned without raising an error
Accepted == status \in {"ready", "segfault", "undefined"}

\* C16: for every geometry the constructor accepts, every access selects a set
\* index in 0..num_sets-1, an existing set, and completes with one of the four
\* classifications. Stated for assoc >= 1, where construction divides by no
\* zero.
C16_AccessIsAlwaysLegal ==
  (Accepted /\ cfg.assoc >= 1) =>
     \A i \in 1..Len(trace) :
        /\ IndexOf(i) \in 0..(sim.num_sets - 1)
        /\ i <= Len(results)
        /\ results[i] \in {"HIT", "MISS-Compulsory", "MISS-Conflict", "MISS-Capacity"}

----------------------------------------------------------------------------
(* decompose as a function of the geometry and the address: a run that      *)
(* constructs a Cache and decomposes addresses without accessing them       *)

\* Largest block number (in 16-byte units) and number of addresses decomposed
MaxDecodeBlock == 9
MaxDecoded == 2

DecodeCacheSizes == {64, 128, 192, 256}
DecodeBlockSizes == {16, 48, 64}
DecodeAssocs     == {1, 2, 3}
DecodeAddrBits   == {7, 16}
DecodeAddrs      == {16 * b + o : b \in 0..MaxDecodeBlock, o \in {0, 15}}

InitDecode ==
  /\ cfg \in [cache_size : DecodeCacheSizes, block_size : DecodeBlockSizes,
              assoc : DecodeAssocs, policy : {"LRU"}, addr_bits : DecodeAddrBits]
  /\ status = "start"
  /\ sim = Unconstructed
  /\ trace = << >>
  /\ results = << >>

\* decompose(addr), with the block_addr access computes beside it
Decode(addr) ==
  /\ status = "ready"
  /\ Len(trace) < MaxDecoded
  /\ trace' = Append(trace, addr)
  /\ results' = Append(results, [tag      |-> Decompose(sim, addr).tag,
                                 index    |-> Decompose(sim, addr).index,
                                 block_id |-> BlockAddr(sim, addr)])
  /\ UNCHANGED <<cfg, status, sim>>

NextDecode ==
  \/ Construct
  \/ \E addr \in DecodeAddrs : Decode(addr)

SpecDecode == InitDecode /\ [][NextDecode]_vars

\* num_sets is 1 or a power of two
ValidSets == sim.num_sets >= 1 /\ IsPow2(sim.num_sets)

\* C17: for a valid geometry decompose maps two addresses to the same
\* (tag, set_index) pair if and only if they have the same block_id;
\* block_id = tag * num_sets + set_index, set_index = block_id mod num_sets,
\* and set_index = 0 when num_sets = 1.
C17_DecomposeIsBijective ==
  (Ready /\ ValidSets) =>
     \A i, j \in 1..Len(results) :
        /\ (results[i].tag = results[j].tag /\ results[i].index = results[j].index)
              <=> results[i].block_id = results[j].block_id
        /\ results[i].block_id = results[i].tag * sim.num_sets + results[i].index
        /\ results[i].index = results[i].block_id % sim.num_sets
        /\ sim.num_sets = 1 => results[i].index = 0

\* Two addresses of one block, in a set other than set 0 and with a tag other
\* than 0, have been decomposed
C17_Witness ==
  /\ Ready /\ ValidSets
  /\ sim.num_sets > 1
  /\ Len(results) = 2
  /\ trace[1] # trace[2]
  /\ results[1] = results[2]
  /\ results[1].index > 0
  /\ results[1].tag > 0

\* C18: an address wider than address_bit_width is truncated to that width
\* before decomposition: two addresses that agree in their low addr_bits
\* bits yield the same (tag, set_index, block_id), and every tag is below
\* 2^tag_bits.
C18_TruncatedToAddrBits ==
  (Ready /\ ValidSets /\ sim.tag_bits >= 0) =>
     \A i, j \in 1..Len(results) :
        /\ LowBits(trace[i], cfg.addr_bits) = LowBits(trace[j], cfg.addr_bits)
              => results[i] = results[j]
        /\ results[i].tag < Pow2(sim.tag_bits)

----------------------------------------------------------------------------
(* Properties of the run, continued *)

\* Block addresses of the tags resident in the sets
ResidentBlocks ==
  UNION {{tag * Pow2(sim.index_bits) + idx : tag \in sim.sets[idx].members} :
           idx \in DOMAIN sim.sets}

\* C19: miss_compulsory equals the number of distinct blocks in seen_blocks,
\* seen_blocks never loses an element, and every block resident in a set or
\* in the oracle is a member of seen_blocks.
C19_SeenBlocks ==
  /\ [](Ready =>
          /\ sim.miss_compulsory = Cardinality(sim.seen_blocks)
          /\ sim.seen_blocks = {BlockOf(i) : i \in 1..Len(trace)}
          /\ ResidentBlocks \subseteq sim.seen_blocks
          /\ sim.fa_sim.pos \subseteq sim.seen_blocks)
  /\ [][sim.seen_blocks \subseteq sim'.seen_blocks]_vars

\* Blocks have been evicted from a set and from the oracle, so that more blocks
\* have been seen than are resident
C19_Witness ==
  /\ Ready
  /\ sim.num_sets > 1
  /\ Cardinality(sim.seen_blocks) >= 3
  /\ Cardinality(ResidentBlocks) < Cardinality(sim.seen_blocks)
  /\ Cardinality(sim.fa_sim.pos) < Cardinality(sim.seen_blocks)
  /\ ResidentBlocks # sim.fa_sim.pos

\* C20: after access(a) returns, hit or miss, a's tag is resident in the set
\* of a and a's block is resident in the oracle; hence an access to the same
\* block issued immediately after is a HIT, under both policies.
C20_ResidentAfterAccess ==
  (Ready /\ Len(trace) > 0) =>
     LET n == Len(trace)
     IN /\ SetContains(sim.sets[IndexOf(n)], TagOf(n))
        /\ TagOf(n) \in Range(sim.sets[IndexOf(n)].order)
        /\ FaHit(sim.fa_sim, BlockOf(n))
        /\ \A i \in 2..n : BlockOf(i) = BlockOf(i - 1) => results[i] = "HIT"

\* A block is accessed again right after a non-compulsory miss that brought
\* it back into a full set
C20_Witness ==
  /\ Ready
  /\ \E i \in 2..Len(trace) :
       /\ BlockOf(i) = BlockOf(i - 1)
       /\ results[i - 1] \in {"MISS-Conflict", "MISS-Capacity"}
       /\ results[i] = "HIT"
       /\ Len(sim.sets[IndexOf(i)].evicted) >= 2

====
